---- MODULE Spec2Model ----
(***************************************************************************)
(* Model of the crate current_previous (src/src/lib.rs): the generic      *)
(* struct CurrentPrevious<T> with its two fields `current: T` and         *)
(* `previous: Option<T>`, its constructor, its two accessors, its three   *)
(* mutators and the derived Clone.                                         *)
(*                                                                         *)
(* The program state is a set of live tracker bindings (`trk`), each one  *)
(* an owned CurrentPrevious value.  Two history variables record the last *)
(* two calls (`last`, `last2`): which method was called on which binding, *)
(* with which argument, what the bindings held before the call and what   *)
(* the call returned.  `lastMut` records, per binding, the most recent     *)
(* call that wrote it (a clone carries over the record of its source).    *)
(***************************************************************************)
EXTENDS Integers, Sequences, FiniteSets, TLC

VARIABLES trk, last, last2, lastMut

vars == <<trk, last, last2, lastMut>>

\* ---- bounds --------------------------------------------------------------

\* T is instantiated with the integers 0..MaxValue
MaxValue == 2

Values == 0 .. MaxValue

\* the bindings a program may hold: an original and a second one that is
\* either cloned from it or constructed on its own
Names == {"a", "b"}

\* ---- Option<T> -----------------------------------------------------------

\* Option<T> is a tagged union; it is modelled as a sequence of length 0 or 1
\* so that None is distinct from Some(v) for every v of T.
None == << >>

Some(v) == << v >>

Option(S) == {None} \cup {Some(v) : v \in S}

is_some(o) == Len(o) = 1

unwrap(o) == o[1]

\* ---- struct CurrentPrevious<T> ------------------------------------------

CurrentPrevious == [current : Values, previous : Option(Values)]

\* variant of new: the initial value is stored in both slots
new_some(initial) == [current |-> initial, previous |-> Some(initial)]

\* pub fn new(initial: T) -> Self
new(initial) == [current |-> initial, previous |-> None]

\* pub fn current(&self) -> &T
current(self) == self.current

\* Option::as_ref: Option<T> -> Option<&T>, same tag, same payload
as_ref(o) == IF is_some(o) THEN Some(unwrap(o)) ELSE None

\* pub fn previous(&self) -> Option<&T>
previous(self) == as_ref(self.previous)

\* std::mem::replace(dest, src): stores src in dest, returns the old dest
replace(dest, src) == [dest |-> src, ret |-> dest]

\* variant of update: the new value is stored before the old one is read, so
\* previous receives the new value
update_new_in_both(self, newv) ==
    [current |-> newv, previous |-> Some(newv)]

\* variant of update: a present previous is kept (Option::get_or_insert), so
\* the oldest displaced value survives
update_keep_oldest(self, newv) ==
    [current |-> newv,
     previous |-> IF is_some(self.previous) THEN self.previous
                  ELSE Some(self.current)]

\* variant of update: an equal value is ignored
update_dedup(self, newv) ==
    IF self.current = newv THEN self
    ELSE [current |-> newv, previous |-> Some(self.current)]

\* pub fn update(&mut self, new: T)
update(self, newv) ==
    LET r == replace(self.current, newv)
    IN  [current |-> r.dest, previous |-> Some(r.ret)]

\* variant of reset: the prior current is shifted, as update does
reset_shift(self, newv) == [current |-> newv, previous |-> Some(self.current)]

\* pub fn reset(&mut self, new: T)
reset(self, newv) == new(newv)

\* variant of clear_previous: the previous value is taken back into current
clear_previous_revert(self) ==
    [current |-> IF is_some(self.previous) THEN unwrap(self.previous)
                 ELSE self.current,
     previous |-> None]

\* variant of clear_previous: nothing is written
clear_previous_noop(self) == self

\* pub fn clear_previous(&mut self)
clear_previous(self) == [current |-> self.current, previous |-> None]

\* #[derive(Clone, Copy)]: field-by-field duplicate
clone(self) == [current |-> self.current, previous |-> self.previous]

\* ---- history records -----------------------------------------------------

Ops == {"new", "clone", "current", "previous", "update", "reset",
        "clear_previous"}

Mutators == {"update", "reset", "clear_previous"}

Readers == {"current", "previous"}

\* a call record: method, receiver binding, argument (None when the method
\* takes none), the bindings before the call, the returned value (None for
\* the methods returning unit)
Call(op, t, arg, pre, ret) ==
    [op |-> op, t |-> t, arg |-> arg, pre |-> pre, ret |-> ret]

NoCall == Call("none", "a", None, << >>, None)

Alive == DOMAIN trk

\* ---- initial state -------------------------------------------------------

\* let mut a = CurrentPrevious::new(v);
Init ==
    \E v \in Values :
        /\ trk = ("a" :> new(v))
        /\ last = Call("new", "a", Some(v), << >>, None)
        /\ last2 = NoCall
        /\ lastMut = ("a" :> "new")

\* ---- actions -------------------------------------------------------------

\* let mut t = CurrentPrevious::new(v);   (a second, independent binding)
New(t, v) ==
    /\ t \notin Alive
    /\ trk' = (t :> new(v)) @@ trk
    /\ last' = Call("new", t, Some(v), trk, None)
    /\ last2' = last
    /\ lastMut' = (t :> "new") @@ lastMut

\* let mut d = s.clone();
Clone(s, d) ==
    /\ s \in Alive
    /\ d \notin Alive
    /\ trk' = (d :> clone(trk[s])) @@ trk
    /\ last' = Call("clone", d, None, trk, None)
    /\ last2' = last
    /\ lastMut' = (d :> lastMut[s]) @@ lastMut

\* t.current()   (&self: the receiver is not written)
Current(t) ==
    /\ t \in Alive
    /\ trk' = trk
    /\ last' = Call("current", t, None, trk, Some(current(trk[t])))
    /\ last2' = last
    /\ lastMut' = lastMut

\* variant of t.previous(): Option::take instead of Option::as_ref
PreviousTake(t) ==
    /\ t \in Alive
    /\ trk' = [trk EXCEPT ![t] = [current |-> trk[t].current, previous |-> None]]
    /\ last' = Call("previous", t, None, trk, trk[t].previous)
    /\ last2' = last
    /\ lastMut' = lastMut

\* t.previous()  (&self: the receiver is not written)
Previous(t) ==
    /\ t \in Alive
    /\ trk' = trk
    /\ last' = Call("previous", t, None, trk, previous(trk[t]))
    /\ last2' = last
    /\ lastMut' = lastMut

\* variant of t.update(v): the bindings share one storage, so every live
\* binding sees the update
UpdateShared(t, v) ==
    /\ t \in Alive
    /\ trk' = [u \in Alive |->
                 [current |-> v, previous |-> Some(trk[u].current)]]
    /\ last' = Call("update", t, Some(v), trk, None)
    /\ last2' = last
    /\ lastMut' = [lastMut EXCEPT ![t] = "update"]

\* variant of t.update(v): the old previous is unwrapped first, which panics
\* when it is None
UpdateUnwrap(t, v) ==
    /\ t \in Alive
    /\ is_some(trk[t].previous)
    /\ trk' = [trk EXCEPT ![t] =
                 [current |-> v, previous |-> Some(trk[t].current)]]
    /\ last' = Call("update", t, Some(v), trk, None)
    /\ last2' = last
    /\ lastMut' = [lastMut EXCEPT ![t] = "update"]

\* t.update(v)
Update(t, v) ==
    /\ t \in Alive
    /\ trk' = [trk EXCEPT ![t] = update(trk[t], v)]
    /\ last' = Call("update", t, Some(v), trk, None)
    /\ last2' = last
    /\ lastMut' = [lastMut EXCEPT ![t] = "update"]

\* t.reset(v)
Reset(t, v) ==
    /\ t \in Alive
    /\ trk' = [trk EXCEPT ![t] = reset(trk[t], v)]
    /\ last' = Call("reset", t, Some(v), trk, None)
    /\ last2' = last
    /\ lastMut' = [lastMut EXCEPT ![t] = "reset"]

\* t.clear_previous()
ClearPrevious(t) ==
    /\ t \in Alive
    /\ trk' = [trk EXCEPT ![t] = clear_previous(trk[t])]
    /\ last' = Call("clear_previous", t, None, trk, None)
    /\ last2' = last
    /\ lastMut' = [lastMut EXCEPT ![t] = "clear_previous"]

Next ==
    \/ \E t \in Names, v \in Values : New(t, v)
    \/ \E s \in Names, d \in Names : Clone(s, d)
    \/ \E t \in Names : Current(t)
    \/ \E t \in Names : Previous(t)
    \/ \E t \in Names, v \in Values : Update(t, v)
    \/ \E t \in Names, v \in Values : Reset(t, v)
    \/ \E t \in Names : ClearPrevious(t)

Spec == Init /\ [][Next]_vars

TypeOK ==
    /\ Alive \subseteq Names
    /\ "a" \in Alive
    /\ \A t \in Alive : trk[t] \in CurrentPrevious
    /\ DOMAIN lastMut = Alive

\* ---- properties ----------------------------------------------------------

\* the receiver of the last call, now and before that call
Self == trk[last.t]

SelfBefore == last.pre[last.t]

\* the last two calls were made on the same binding
SameReceiver == last2.op \in Ops /\ last2.t = last.t

\* C1: after update(new), current equals new and previous is present and
\* equal to the value current held immediately before the call, whatever
\* previous held before.
C1_UpdateShifts ==
    last.op = "update" =>
        /\ current(Self) = unwrap(last.arg)
        /\ is_some(previous(Self))
        /\ previous(Self) = Some(current(SelfBefore))

\* an update made while previous was present and held something other than
\* the prior current and the new value
C1_Witness ==
    /\ last.op = "update"
    /\ is_some(SelfBefore.previous)
    /\ SelfBefore.previous # Some(SelfBefore.current)
    /\ SelfBefore.previous # last.arg
    /\ SelfBefore.current # unwrap(last.arg)
    /\ previous(Self) = Some(current(SelfBefore))

\* C2: the tracker returned by new(v) has current equal to v and previous
\* absent.
C2_NewState ==
    last.op = "new" =>
        /\ current(Self) = unwrap(last.arg)
        /\ previous(Self) = None

\* a second tracker constructed while the first one holds a previous value
C2_Witness ==
    /\ last.op = "new"
    /\ last.t = "b"
    /\ is_some(trk["a"].previous)
    /\ current(Self) = unwrap(last.arg)
    /\ previous(Self) = None

\* C3: reset(new) leaves the tracker in exactly the state new(new) produces:
\* current equals new, previous is absent; neither the prior current nor the
\* prior previous is shifted into previous.
C3_ResetAsNew ==
    last.op = "reset" =>
        /\ current(Self) = unwrap(last.arg)
        /\ previous(Self) = None
        /\ previous(Self) # Some(current(SelfBefore))
        /\ is_some(SelfBefore.previous) => previous(Self) # SelfBefore.previous
        /\ Self = new(unwrap(last.arg))

\* a reset of a tracker that held a previous value, to a third value
C3_Witness ==
    /\ last.op = "reset"
    /\ is_some(SelfBefore.previous)
    /\ unwrap(last.arg) # SelfBefore.current
    /\ last.arg # SelfBefore.previous
    /\ Self = [current |-> unwrap(last.arg), previous |-> None]

C5_ClearPrevious ==
    last.op = "clear_previous" =>
        /\ previous(Self) = None
        /\ current(Self) = current(SelfBefore)
        /\ SelfBefore.previous = None => Self = SelfBefore
        /\ (last2.op = "clear_previous" /\ SameReceiver) => trk = last.pre

\* clear_previous called twice in a row on a tracker that held a previous
\* value different from its current one
C5_Witness ==
    /\ last.op = "clear_previous"
    /\ last2.op = "clear_previous"
    /\ SameReceiver
    /\ is_some(last2.pre[last.t].previous)
    /\ last2.pre[last.t].previous # Some(last2.pre[last.t].current)
    /\ trk = last.pre
    /\ Self = [current |-> last2.pre[last.t].current, previous |-> None]

\* C6: previous is present if and only if the most recent call that wrote
\* the tracker (among new, update, reset, clear_previous) was an update.
C6_PresentIffUpdated ==
    \A t \in Alive :
        /\ is_some(previous(trk[t])) <=> lastMut[t] = "update"
        /\ lastMut[t] \in {"new", "reset", "clear_previous"}
               => previous(trk[t]) = None

\* two trackers, one last written by update and read since, the other last
\* written by clear_previous after an update
C6_Witness ==
    /\ Alive = Names
    /\ lastMut["a"] = "update"
    /\ is_some(previous(trk["a"]))
    /\ last.op \in Readers
    /\ last.t = "a"
    /\ lastMut["b"] = "clear_previous"
    /\ previous(trk["b"]) = None

\* C7: after a clone, update, reset and clear_previous applied to one of the
\* two trackers leave the other one's current and previous unchanged.
C7_CloneIndependent ==
    last.op \in Mutators =>
        \A u \in Alive \ {last.t} :
            /\ current(trk[u]) = current(last.pre[u])
            /\ previous(trk[u]) = previous(last.pre[u])

\* the duplicate is mutated right after the clone, as in the test clone, and
\* the two trackers now differ; or the original is mutated right after it
C7_Witness ==
    /\ last2.op = "clone"
    /\ last.op \in Mutators
    /\ last.pre["a"] = last.pre["b"]
    /\ trk[last.t] # last.pre[last.t]
    /\ \A u \in Alive \ {last.t} : trk[u] = last.pre[u]
    /\ trk["a"] # trk["b"]

\* C8: previous changes only through update (set to the prior current),
\* reset (cleared) or clear_previous (cleared); current() and previous()
\* leave both slots unchanged; clear_previous never changes current.
C8_PreviousFrame ==
    /\ \A t \in DOMAIN last.pre :
           trk[t].previous # last.pre[t].previous =>
               /\ last.t = t
               /\ \/ /\ last.op = "update"
                     /\ trk[t].previous = Some(last.pre[t].current)
                  \/ /\ last.op \in {"reset", "clear_previous"}
                     /\ trk[t].previous = None
    /\ last.op \in Readers => trk = last.pre
    /\ last.op = "current" => last.ret = Some(Self.current)
    /\ last.op = "previous" => last.ret = Self.previous
    /\ last.op = "clear_previous" => Self.current = SelfBefore.current

\* previous() called on a tracker holding a previous value
C8_Witness ==
    /\ last.op = "previous"
    /\ is_some(last.ret)
    /\ is_some(Self.previous)
    /\ trk = last.pre

\* C9: no operation can fail: in every reachable state each of current,
\* previous, update(v), reset(v) and clear_previous is enabled on every live
\* tracker for every value v, and the state is a valid tracker state
\* (current present, previous absent or a value).
C9_NoFailure ==
    /\ TypeOK
    /\ \A t \in Alive :
           /\ trk[t].current \in Values
           /\ trk[t].previous \in Option(Values)
           /\ ENABLED Current(t)
           /\ ENABLED Previous(t)
           /\ ENABLED ClearPrevious(t)
           /\ \A v \in Values : ENABLED Update(t, v) /\ ENABLED Reset(t, v)

\* an update accepted by a tracker whose previous was absent
C9_Witness ==
    /\ last.op = "update"
    /\ SelfBefore.previous = None
    /\ Self \in CurrentPrevious
    /\ ENABLED Update(last.t, unwrap(last.arg))

\* C10: update does not compare: update(v) when current already equals v
\* still shifts, leaving previous = Some(v) = Some(current); when previous
\* differed from v the call changes the previous slot.
C10_NoDedup ==
    (last.op = "update" /\ SelfBefore.current = unwrap(last.arg)) =>
        /\ previous(Self) = last.arg
        /\ previous(Self) = Some(current(Self))
        /\ SelfBefore.previous # last.arg => Self.previous # SelfBefore.previous

\* update(v) twice in a row: the second call finds current = v already and
\* still changes previous
C10_Witness ==
    /\ last.op = "update"
    /\ last2.op = "update"
    /\ SameReceiver
    /\ last2.arg = last.arg
    /\ last2.pre[last.t].current # unwrap(last.arg)
    /\ Self.previous = Some(Self.current)
    /\ Self.previous # SelfBefore.previous

====
